---- MODULE Spec2Model ----
(***************************************************************************)
(* Model of the three puzzle pipelines of aoc-2022 (src/day1.rs,           *)
(* src/day2.rs, src/day3.rs).  Every pipeline is parse -> compute ->       *)
(* format over immutable values; the state records which function was      *)
(* applied last, its arguments and what it returned (or that it panicked). *)
(*                                                                         *)
(* A char is a one-character string, a &str / String is a sequence of      *)
(* chars.  Texts use LF line endings only (no carriage returns) and ASCII  *)
(* characters only, so a byte index is a char index.                       *)
(***************************************************************************)
EXTENDS Integers, Sequences, FiniteSets

VARIABLES
    call,           \* name of the function applied last, "" before any call
    input,          \* the &str handed to a generator
    panicked,       \* TRUE when the call unwound with a panic
    boxes,          \* day1: the slice of CalorieBox (generator result / argument)
    count,          \* day1: get_largest_boxes' count argument
    largest,        \* day1: the box get_largest_box returned
    largest_boxes,  \* day1: the Vec get_largest_boxes returned
    sum,            \* day1: the u32 sum_boxes returned
    games,          \* day2: the Vec<Game> a generator returned
    from,           \* day2: from_strategy's Play argument
    strategy,       \* day2: from_strategy's &str argument
    play,           \* day2: the Result<Play> from_strategy returned
    game,           \* day2: the Game points was called on
    points,         \* day2: the u32 Game::points returned
    compartments,   \* day3: the Vec<(String, String)> of generator part 1
    rucksacks,      \* day3: the Vec<(String, String, String)> of generator part 2
    answer          \* day3: the String a solver returned

day1vars == <<boxes, count, largest, largest_boxes, sum>>
day2vars == <<games, from, strategy, play, game, points>>
day3vars == <<compartments, rucksacks, answer>>
vars == <<call, input, panicked, day1vars, day2vars, day3vars>>

(***************************************************************************)
(* Bounds of the model.                                                    *)
(***************************************************************************)
MaxLines1 == 4      \* day1: lines joined into an input text
MaxBoxes == 3       \* day1: boxes in a slice passed directly to a function
MaxCount == 4       \* day1: largest count passed to get_largest_boxes
MaxLines2 == 3      \* day2: lines joined into an input text
MaxLines3 == 3      \* day3: lines joined into an input text of part 1
MaxSacks == 6       \* day3: lines joined into an input text of part 2

(***************************************************************************)
(* Strings.                                                                *)
(***************************************************************************)
LF == "\n"

Min(a, b) == IF a < b THEN a ELSE b

RECURSIVE SeqSum(_)
SeqSum(s) == IF s = <<>> THEN 0 ELSE Head(s) + SeqSum(Tail(s))

RECURSIVE Concat(_)
Concat(ss) == IF ss = <<>> THEN <<>> ELSE Head(ss) \o Concat(Tail(ss))

\* [T]::join(sep): the pieces with sep between neighbours.
RECURSIVE Join(_, _)
Join(ls, sep) ==
    IF ls = <<>> THEN <<>>
    ELSE IF Len(ls) = 1 THEN ls[1]
    ELSE ls[1] \o <<sep>> \o Join(Tail(ls), sep)

\* All sequences over S of length at most n.
SeqsUpTo(S, n) == UNION {[1..k -> S] : k \in 0..n}

\* The input texts built from at most n lines of lineSet.
Texts(lineSet, n) == {Join(ls, LF) : ls \in SeqsUpTo(lineSet, n)}

\* str::split(sep): the pieces between separators; always at least one piece.
Split(s, sep) ==
    LET RECURSIVE go(_, _, _)
        go(i, cur, acc) ==
            IF i > Len(s) THEN Append(acc, cur)
            ELSE IF s[i] = sep THEN go(i + 1, <<>>, Append(acc, cur))
            ELSE go(i + 1, Append(cur, s[i]), acc)
    IN go(1, <<>>, <<>>)

LinesKeepsLastPiece(s) == Split(s, LF)

\* str::lines(): split at LF; the piece after a final LF (or of an empty
\* text) is not a line.
Lines(s) ==
    LET parts == Split(s, LF)
    IN IF parts[Len(parts)] = <<>> THEN SubSeq(parts, 1, Len(parts) - 1)
       ELSE parts

\* Option<T> and Result<T, E>: Some(x) / Ok(x) is <<x>>, None / Err(_) is <<>>.
Some(x) == <<x>>

None == <<>>

IsSome(o) == o # <<>>

Unwrap(o) == o[1]

Digits == <<"0", "1", "2", "3", "4", "5", "6", "7", "8", "9">>

IsDigit(c) == \E d \in 1..10 : Digits[d] = c

DigitVal(c) == (CHOOSE d \in 1..10 : Digits[d] = c) - 1

\* <u32 as FromStr>::from_str: an optional '+', then one or more decimal
\* digits.  The lines of the model have at most two digits, so the value
\* always fits a u32 (the PosOverflow error is outside the model's inputs).
ParseU32(s) ==
    LET body == IF s # <<>> /\ s[1] = "+" THEN Tail(s) ELSE s
        RECURSIVE val(_, _)
        val(i, acc) == IF i > Len(body) THEN acc
                       ELSE val(i + 1, acc * 10 + DigitVal(body[i]))
    IN IF body = <<>> \/ \E i \in 1..Len(body) : ~IsDigit(body[i])
       THEN None
       ELSE Some(val(1, 0))

\* u32::to_string: the decimal digits, most significant first.
RECURSIVE to_string(_)
to_string(n) ==
    IF n < 10 THEN <<Digits[n + 1]>>
    ELSE Append(to_string(n \div 10), Digits[(n % 10) + 1])

(***************************************************************************)
(* Day 1: grouped sums.                                                    *)
(***************************************************************************)
CalorieBox(position, calories) == [position |-> position, calories |-> calories]

NoBox == CalorieBox(0, <<>>)

\* CalorieBox::total: the sum of the calories.  The calories of the model
\* keep every sum far below 2^32, so the u32 addition never overflows.
total(b) == SeqSum(b.calories)

\* input_generator: an empty line closes the running box, any other line is
\* parsed (expect: a panic when it is no u32); the running box is pushed
\* once more after the last line.
input_generator(text) ==
    LET ls == Lines(text)
        RECURSIVE go(_, _, _)
        go(i, bs, calories) ==
            IF i > Len(ls)
            THEN [panicked |-> FALSE,
                  boxes |-> Append(bs, CalorieBox(Len(bs), calories))]
            ELSE IF ls[i] = <<>>
            THEN go(i + 1, Append(bs, CalorieBox(Len(bs), calories)), <<>>)
            ELSE IF ~IsSome(ParseU32(ls[i]))
            THEN [panicked |-> TRUE, boxes |-> <<>>]
            ELSE go(i + 1, bs, Append(calories, Unwrap(ParseU32(ls[i]))))
    IN go(1, <<>>, <<>>)

MaxByKeepsFirst(in) ==
    LET RECURSIVE go(_, _)
        go(i, best) ==
            IF i > Len(in) THEN best
            ELSE go(i + 1, IF total(best) >= total(in[i]) THEN best ELSE in[i])
    IN IF in = <<>> THEN [panicked |-> TRUE, box |-> NoBox]
       ELSE [panicked |-> FALSE, box |-> go(2, in[1])]

\* get_largest_box: Iterator::max_by folds the slice keeping the running
\* maximum only while it compares Greater than the next element (so the later
\* of two equal elements is kept); expect panics on None.
get_largest_box(in) ==
    LET RECURSIVE go(_, _)
        go(i, best) ==
            IF i > Len(in) THEN best
            ELSE go(i + 1, IF total(best) > total(in[i]) THEN best ELSE in[i])
    IN IF in = <<>> THEN [panicked |-> TRUE, box |-> NoBox]
       ELSE [panicked |-> FALSE, box |-> go(2, in[1])]

InsertPointBeforeEqual(s, x) ==
    IF \E i \in 1..Len(s) : total(x) >= total(s[i])
    THEN CHOOSE i \in 1..Len(s) :
            /\ total(x) >= total(s[i])
            /\ \A j \in 1..(i - 1) : ~(total(x) >= total(s[j]))
    ELSE Len(s) + 1

\* The place a stable sort by |a, b| b.total().partial_cmp(&a.total()) gives
\* x among the already sorted s: before the first element x compares Less
\* than, i.e. the first element with a smaller total.
InsertPoint(s, x) ==
    IF \E i \in 1..Len(s) : total(x) > total(s[i])
    THEN CHOOSE i \in 1..Len(s) :
            /\ total(x) > total(s[i])
            /\ \A j \in 1..(i - 1) : ~(total(x) > total(s[j]))
    ELSE Len(s) + 1

InsertAt(s, i, x) == SubSeq(s, 1, i - 1) \o <<x>> \o SubSeq(s, i, Len(s))

SortAscending(s) ==
    LET RECURSIVE go(_, _)
        go(i, acc) ==
            IF i > Len(s) THEN acc
            ELSE go(i + 1,
                    InsertAt(acc,
                             IF \E j \in 1..Len(acc) : total(s[i]) < total(acc[j])
                             THEN CHOOSE j \in 1..Len(acc) :
                                     /\ total(s[i]) < total(acc[j])
                                     /\ \A l \in 1..(j - 1) :
                                            ~(total(s[i]) < total(acc[l]))
                             ELSE Len(acc) + 1,
                             s[i]))
    IN go(1, <<>>)

\* slice::sort_by with the descending comparator: a stable sort.
SortByTotalDesc(s) ==
    LET RECURSIVE go(_, _)
        go(i, acc) ==
            IF i > Len(s) THEN acc
            ELSE go(i + 1, InsertAt(acc, InsertPoint(acc, s[i]), s[i]))
    IN go(1, <<>>)

\* Vec::truncate(n): the first n elements, all of them when there are fewer.
Truncate(s, n) == IF n >= Len(s) THEN s ELSE SubSeq(s, 1, n)

\* get_largest_boxes: copy, sort descending by total, truncate to count.
get_largest_boxes(in, n) == Truncate(SortByTotalDesc(in), n)

\* sum_boxes: the sum of the boxes' totals.
sum_boxes(in) == SeqSum([i \in 1..Len(in) |-> total(in[i])])

\* Inputs of day 1.
Day1Lines == {<<>>, <<"1">>, <<"1", "2">>, <<"+", "2">>, <<"x">>}

BoxCalories == {<<>>, <<1>>, <<2>>, <<1, 2>>, <<2, 1>>, <<3>>}

\* Slices as the generator numbers them: the i-th box has position i - 1.
BoxSeqs ==
    {[i \in 1..Len(cs) |-> CalorieBox(i - 1, cs[i])] :
        cs \in SeqsUpTo(BoxCalories, MaxBoxes)}

\* The slices a day-1 function can be applied to: what the generator just
\* returned, or (called directly) any slice.
ArgBoxes ==
    IF call = "" THEN BoxSeqs
    ELSE IF call = "input_generator" /\ ~panicked THEN {boxes}
    ELSE {}

Day1Unset ==
    /\ boxes = <<>>
    /\ count = 0
    /\ largest = NoBox
    /\ largest_boxes = <<>>
    /\ sum = 0

InputGenerator ==
    /\ call = ""
    /\ \E text \in Texts(Day1Lines, MaxLines1) :
        /\ input' = text
        /\ panicked' = input_generator(text).panicked
        /\ boxes' = input_generator(text).boxes
    /\ call' = "input_generator"
    /\ UNCHANGED <<count, largest, largest_boxes, sum, day2vars, day3vars>>

GetLargestBox ==
    /\ \E G \in ArgBoxes :
        /\ boxes' = G
        /\ panicked' = get_largest_box(G).panicked
        /\ largest' = get_largest_box(G).box
    /\ call' = "get_largest_box"
    /\ UNCHANGED <<input, count, largest_boxes, sum, day2vars, day3vars>>

GetLargestBoxes ==
    /\ \E G \in ArgBoxes, k \in 0..MaxCount :
        /\ boxes' = G
        /\ count' = k
        /\ largest_boxes' = get_largest_boxes(G, k)
    /\ call' = "get_largest_boxes"
    /\ panicked' = FALSE
    /\ UNCHANGED <<input, largest, sum, day2vars, day3vars>>

SumBoxes ==
    /\ \E G \in ArgBoxes :
        /\ boxes' = G
        /\ sum' = sum_boxes(G)
    /\ call' = "sum_boxes"
    /\ panicked' = FALSE
    /\ UNCHANGED <<input, count, largest, largest_boxes, day2vars, day3vars>>

(***************************************************************************)
(* Day 2: paired-choice game.                                              *)
(***************************************************************************)
Plays == {"Rock", "Paper", "Scissors"}

\* enum Play { Rock = 1, Paper, Scissors }: the discriminant, `play as u32`.
AsU32(p) == CASE p = "Rock" -> 1 [] p = "Paper" -> 2 [] p = "Scissors" -> 3

WinsAgainstFromLeft(self, against) ==
    CASE <<self, against>> = <<"Rock", "Rock">> -> "Tie"
      [] <<self, against>> = <<"Rock", "Paper">> -> "Win"
      [] <<self, against>> = <<"Rock", "Scissors">> -> "Loss"
      [] <<self, against>> = <<"Paper", "Rock">> -> "Loss"
      [] <<self, against>> = <<"Paper", "Paper">> -> "Tie"
      [] <<self, against>> = <<"Paper", "Scissors">> -> "Win"
      [] <<self, against>> = <<"Scissors", "Rock">> -> "Win"
      [] <<self, against>> = <<"Scissors", "Paper">> -> "Loss"
      [] <<self, against>> = <<"Scissors", "Scissors">> -> "Tie"

\* Play::wins_against: the match on (against, self).
wins_against(self, against) ==
    CASE <<against, self>> = <<"Rock", "Rock">> -> "Tie"
      [] <<against, self>> = <<"Rock", "Paper">> -> "Win"
      [] <<against, self>> = <<"Rock", "Scissors">> -> "Loss"
      [] <<against, self>> = <<"Paper", "Rock">> -> "Loss"
      [] <<against, self>> = <<"Paper", "Paper">> -> "Tie"
      [] <<against, self>> = <<"Paper", "Scissors">> -> "Win"
      [] <<against, self>> = <<"Scissors", "Rock">> -> "Win"
      [] <<against, self>> = <<"Scissors", "Paper">> -> "Loss"
      [] <<against, self>> = <<"Scissors", "Scissors">> -> "Tie"

FromStrategyXWins(f, s) ==
    CASE s = <<"Z">> ->
            (CASE f = "Rock" -> Some("Scissors")
               [] f = "Paper" -> Some("Rock")
               [] f = "Scissors" -> Some("Paper"))
      [] s = <<"Y">> -> Some(f)
      [] s = <<"X">> ->
            (CASE f = "Rock" -> Some("Paper")
               [] f = "Paper" -> Some("Scissors")
               [] f = "Scissors" -> Some("Rock"))
      [] OTHER -> None

\* Play::from_strategy: the match on the strategy, then on the Play.
from_strategy(f, s) ==
    CASE s = <<"X">> ->
            (CASE f = "Rock" -> Some("Scissors")
               [] f = "Paper" -> Some("Rock")
               [] f = "Scissors" -> Some("Paper"))
      [] s = <<"Y">> -> Some(f)
      [] s = <<"Z">> ->
            (CASE f = "Rock" -> Some("Paper")
               [] f = "Paper" -> Some("Scissors")
               [] f = "Scissors" -> Some("Rock"))
      [] OTHER -> None

\* <Play as FromStr>::from_str.
from_str(s) ==
    CASE s = <<"A">> \/ s = <<"X">> -> Some("Rock")
      [] s = <<"B">> \/ s = <<"Y">> -> Some("Paper")
      [] s = <<"C">> \/ s = <<"Z">> -> Some("Scissors")
      [] OTHER -> None

\* struct Game(pub Play, pub Play): g[1] is field .0, g[2] is field .1.
Game(left, right) == <<left, right>>

\* Game::points: the right Play's discriminant plus 6 / 3 / 0 for what the
\* right Play does against the left one.
Game_points(g) ==
    AsU32(g[2])
        + (CASE wins_against(g[2], g[1]) = "Win" -> 6
             [] wins_against(g[2], g[1]) = "Tie" -> 3
             [] wins_against(g[2], g[1]) = "Loss" -> 0)

\* Iterator::filter_map: the values of the Some results, in order.
RECURSIVE FilterMap(_)
FilterMap(opts) ==
    IF opts = <<>> THEN <<>> ELSE Head(opts) \o FilterMap(Tail(opts))

\* The closure of input_generator_part1: the first two pieces of
\* line.split(' ') parsed as Plays; None as soon as a piece is missing or
\* does not parse (the ? operator).  Further pieces are never read.
day2_part1_line(line) ==
    LET split == Split(line, " ")
    IN IF ~IsSome(from_str(split[1])) THEN None
       ELSE IF Len(split) < 2 THEN None
       ELSE IF ~IsSome(from_str(split[2])) THEN None
       ELSE Some(Game(Unwrap(from_str(split[1])), Unwrap(from_str(split[2]))))

\* The closure of input_generator_part2: the second piece goes through
\* from_strategy with the first piece's Play.
day2_part2_line(line) ==
    LET split == Split(line, " ")
    IN IF ~IsSome(from_str(split[1])) THEN None
       ELSE IF Len(split) < 2 THEN None
       ELSE IF ~IsSome(from_strategy(Unwrap(from_str(split[1])), split[2]))
       THEN None
       ELSE Some(Game(Unwrap(from_str(split[1])),
                      Unwrap(from_strategy(Unwrap(from_str(split[1])),
                                           split[2]))))

\* day2::input_generator_part1: lines().filter_map(closure).collect().
day2_input_generator_part1(text) ==
    FilterMap([i \in 1..Len(Lines(text)) |-> day2_part1_line(Lines(text)[i])])

\* day2::input_generator_part2: lines().filter_map(closure).collect().
day2_input_generator_part2(text) ==
    FilterMap([i \in 1..Len(Lines(text)) |-> day2_part2_line(Lines(text)[i])])

\* Inputs of day 2.
Day2Lines ==
    {<<"A", " ", "Y">>, <<"B", " ", "X">>, <<"C", " ", "Z">>,
     <<"B", " ", "A">>, <<"A", " ", "Q">>, <<"Q", " ", "Y">>,
     <<"A", " ", "Y", " ", "Z">>, <<"A">>, <<>>}

Strategies == {<<"X">>, <<"Y">>, <<"Z">>, <<"A">>, <<"x">>, <<"X", "Y">>, <<>>}

Day2InputGeneratorPart1 ==
    /\ call = ""
    /\ \E text \in Texts(Day2Lines, MaxLines2) :
        /\ input' = text
        /\ games' = day2_input_generator_part1(text)
    /\ call' = "day2::input_generator_part1"
    /\ panicked' = FALSE
    /\ UNCHANGED <<from, strategy, play, game, points, day1vars, day3vars>>

Day2InputGeneratorPart2 ==
    /\ call = ""
    /\ \E text \in Texts(Day2Lines, MaxLines2) :
        /\ input' = text
        /\ games' = day2_input_generator_part2(text)
    /\ call' = "day2::input_generator_part2"
    /\ panicked' = FALSE
    /\ UNCHANGED <<from, strategy, play, game, points, day1vars, day3vars>>

FromStrategy ==
    /\ call = ""
    /\ \E f \in Plays, s \in Strategies :
        /\ from' = f
        /\ strategy' = s
        /\ play' = from_strategy(f, s)
    /\ call' = "from_strategy"
    /\ panicked' = FALSE
    /\ UNCHANGED <<input, games, game, points, day1vars, day3vars>>

\* points on a Game built directly, or on a Game a generator returned.
Points ==
    /\ \E g \in IF call = "" THEN Plays \X Plays
                ELSE IF call \in {"day2::input_generator_part1",
                                  "day2::input_generator_part2"}
                THEN {games[i] : i \in 1..Len(games)}
                ELSE {} :
        /\ game' = g
        /\ points' = Game_points(g)
    /\ call' = "points"
    /\ panicked' = FALSE
    /\ UNCHANGED <<input, games, from, strategy, play, day1vars, day3vars>>

(***************************************************************************)
(* Day 3: set-intersection scoring.                                        *)
(***************************************************************************)
LowerCase ==
    <<"a", "b", "c", "d", "e", "f", "g", "h", "i", "j", "k", "l", "m",
      "n", "o", "p", "q", "r", "s", "t", "u", "v", "w", "x", "y", "z">>

UpperCase ==
    <<"A", "B", "C", "D", "E", "F", "G", "H", "I", "J", "K", "L", "M",
      "N", "O", "P", "Q", "R", "S", "T", "U", "V", "W", "X", "Y", "Z">>

IndexIn(tbl, c) == CHOOSE i \in 1..Len(tbl) : tbl[i] = c

IsIn(tbl, c) == \E i \in 1..Len(tbl) : tbl[i] = c

\* `ch as u32`: the code point of an ASCII letter or digit.
Ord(c) ==
    CASE IsIn(Digits, c) -> 47 + IndexIn(Digits, c)
      [] IsIn(UpperCase, c) -> 64 + IndexIn(UpperCase, c)
      [] IsIn(LowerCase, c) -> 96 + IndexIn(LowerCase, c)

Chars(s) == {s[i] : i \in 1..Len(s)}

\* common_chars: the intersection of the two strings' char sets, collected
\* into a String in the HashSet's iteration order, which is unspecified; the
\* model keeps the set of the String's chars.
common_chars(c1, c2) == Chars(c1) \cap Chars(c2)

\* String::chars().next() on a String collected from a HashSet: None when it
\* is empty, otherwise whichever char the iteration yields first.
FirstChars(set) == IF set = {} THEN {None} ELSE {Some(c) : c \in set}

PriorityCaseSwapped(ch) ==
    IF Ord(ch) \in Ord("A")..Ord("Z") THEN Some(Ord(ch) - Ord("A") + 1)
    ELSE IF Ord(ch) \in Ord("a")..Ord("z") THEN Some(Ord(ch) - Ord("a") + 27)
    ELSE None

\* priority: 'A'..='Z' => ch - 'A' + 27, 'a'..='z' => ch - 'a' + 1, else None.
priority(ch) ==
    IF Ord(ch) \in Ord("A")..Ord("Z") THEN Some(Ord(ch) - Ord("A") + 27)
    ELSE IF Ord(ch) \in Ord("a")..Ord("z") THEN Some(Ord(ch) - Ord("a") + 1)
    ELSE None

\* day3::input_generator_part1: every line cut at len / 2.
day3_input_generator_part1(text) ==
    [i \in 1..Len(Lines(text)) |->
        LET line == Lines(text)[i]
        IN <<SubSeq(line, 1, Len(line) \div 2),
             SubSeq(line, (Len(line) \div 2) + 1, Len(line))>>]

ChunksExact(s, n) ==
    [j \in 1..(Len(s) \div n) |-> SubSeq(s, (j - 1) * n + 1, j * n)]

\* slice::chunks(n): consecutive runs of n elements, the last one shorter
\* when the length is no multiple of n.
Chunks(s, n) ==
    [j \in 1..((Len(s) + n - 1) \div n) |->
        SubSeq(s, (j - 1) * n + 1, Min(j * n, Len(s)))]

\* day3::input_generator_part2: chunks(3) of the lines; a chunk that is not
\* [l1, l2, l3] panics while the Vec is collected.
day3_input_generator_part2(text) ==
    LET chunks == Chunks(Lines(text), 3)
    IN IF \E j \in 1..Len(chunks) : Len(chunks[j]) # 3
       THEN [panicked |-> TRUE, rucksacks |-> <<>>]
       ELSE [panicked |-> FALSE,
             rucksacks |-> [j \in 1..Len(chunks) |->
                             <<chunks[j][1], chunks[j][2], chunks[j][3]>>]]

\* The chars of the model's day-3 inputs.
Day3Chars == {"a", "b", "Z", "3"}

\* What one run of filter_map(.. chars().next()) can yield for the common
\* char sets of the entries, one Option<char> per entry.
FirstCharRuns(sets) ==
    {p \in [1..Len(sets) -> {Some(c) : c \in Day3Chars} \cup {None}] :
        \A i \in 1..Len(sets) : p[i] \in FirstChars(sets[i])}

\* The tail of both solvers: filter_map(priority).sum::<u32>().to_string().
SumPriorities(firsts) ==
    to_string(SeqSum(FilterMap(
        [i \in 1..Len(FilterMap(firsts)) |-> priority(FilterMap(firsts)[i])])))

\* day3::solve_part1: the Strings it can return.
day3_solve_part1(cs) ==
    {SumPriorities(p) :
        p \in FirstCharRuns([i \in 1..Len(cs) |->
                                common_chars(cs[i][1], cs[i][2])])}

\* The chars of common_chars(b, c).as_str(), as a string to intersect again.
AsStr(set) ==
    LET RECURSIVE go(_)
        go(S) == IF S = {} THEN <<>>
                 ELSE LET c == CHOOSE c \in S : TRUE
                      IN <<c>> \o go(S \ {c})
    IN go(set)

\* day3::solve_part2: the Strings it can return.
day3_solve_part2(rs) ==
    {SumPriorities(p) :
        p \in FirstCharRuns([i \in 1..Len(rs) |->
                common_chars(rs[i][1], AsStr(common_chars(rs[i][2], rs[i][3])))])}

\* Inputs of day 3.
Day3Lines ==
    {<<>>, <<"a", "a">>, <<"Z", "b", "Z">>, <<"3", "a", "3", "Z">>,
     <<"a", "Z", "a", "Z">>, <<"a", "3">>}

SackLines == {<<>>, <<"a", "3">>, <<"Z", "3">>, <<"a", "Z">>}

Day3InputGeneratorPart1 ==
    /\ call = ""
    /\ \E text \in Texts(Day3Lines, MaxLines3) :
        /\ input' = text
        /\ compartments' = day3_input_generator_part1(text)
    /\ call' = "day3::input_generator_part1"
    /\ panicked' = FALSE
    /\ UNCHANGED <<rucksacks, answer, day1vars, day2vars>>

Day3InputGeneratorPart2 ==
    /\ call = ""
    /\ \E text \in Texts(SackLines, MaxSacks) :
        /\ input' = text
        /\ rucksacks' = day3_input_generator_part2(text).rucksacks
        /\ panicked' = day3_input_generator_part2(text).panicked
    /\ call' = "day3::input_generator_part2"
    /\ UNCHANGED <<compartments, answer, day1vars, day2vars>>

Day3SolvePart1 ==
    /\ call = "day3::input_generator_part1"
    /\ answer' \in day3_solve_part1(compartments)
    /\ call' = "day3::solve_part1"
    /\ UNCHANGED <<input, panicked, compartments, rucksacks, day1vars, day2vars>>

Day3SolvePart2 ==
    /\ call = "day3::input_generator_part2"
    /\ ~panicked
    /\ answer' \in day3_solve_part2(rucksacks)
    /\ call' = "day3::solve_part2"
    /\ UNCHANGED <<input, panicked, compartments, rucksacks, day1vars, day2vars>>

Init ==
    /\ call = ""
    /\ input = <<>>
    /\ panicked = FALSE
    /\ Day1Unset
    /\ games = <<>>
    /\ from = "Rock"
    /\ strategy = <<>>
    /\ play = None
    /\ game = Game("Rock", "Rock")
    /\ points = 0
    /\ compartments = <<>>
    /\ rucksacks = <<>>
    /\ answer = <<>>

NextDay1 ==
    \/ InputGenerator
    \/ GetLargestBox
    \/ GetLargestBoxes
    \/ SumBoxes

NextDay2 ==
    \/ Day2InputGeneratorPart1
    \/ Day2InputGeneratorPart2
    \/ FromStrategy
    \/ Points

NextDay3 ==
    \/ Day3InputGeneratorPart1
    \/ Day3InputGeneratorPart2
    \/ Day3SolvePart1
    \/ Day3SolvePart2

SpecDay1 == Init /\ [][NextDay1]_vars

SpecDay2 == Init /\ [][NextDay2]_vars

SpecDay3 == Init /\ [][NextDay3]_vars

(***************************************************************************)
(* Day 1: properties.                                                      *)
(***************************************************************************)
Positions(s) == {s[i].position : i \in 1..Len(s)}

IsMaxTotal(b, s) == \A i \in 1..Len(s) : total(s[i]) <= total(b)

\* C2 as stated: get_largest_box returns a box of maximum total, and among
\* the boxes of that total the one that comes first in input order.
C2_FirstOfTies ==
    (call = "get_largest_box" /\ ~panicked) =>
        /\ largest \in {boxes[i] : i \in 1..Len(boxes)}
        /\ IsMaxTotal(largest, boxes)
        /\ \A i \in 1..Len(boxes) :
            total(boxes[i]) = total(largest) =>
                largest.position <= boxes[i].position

\* C2 amended: on every non-empty slice get_largest_box returns (does not
\* panic) a box of the slice whose total is the maximum, and among the boxes
\* of that total the one that comes LAST in input order.
C2_LastOfTies ==
    (call = "get_largest_box" /\ boxes # <<>>) =>
        /\ ~panicked
        /\ largest \in {boxes[i] : i \in 1..Len(boxes)}
        /\ IsMaxTotal(largest, boxes)
        /\ \A i \in 1..Len(boxes) :
            total(boxes[i]) = total(largest) =>
                largest.position >= boxes[i].position

C2_Witness ==
    /\ call = "get_largest_box"
    /\ ~panicked
    /\ Len(boxes) = 3
    /\ total(boxes[1]) = total(boxes[2])
    /\ total(boxes[3]) < total(boxes[1])
    /\ largest = boxes[2]

\* C3 as stated: for every slice G, the empty one included, both
\* sum_boxes(get_largest_boxes(G, 1)) and get_largest_box(G).total() are
\* defined, and they are equal.
C3_DefinedForAll ==
    call = "get_largest_box" =>
        /\ ~panicked
        /\ sum_boxes(get_largest_boxes(boxes, 1)) = total(largest)

\* C3 amended: for every non-empty slice G the two are defined and equal; on
\* the empty slice get_largest_box panics while
\* sum_boxes(get_largest_boxes(G, 1)) is 0.
C3_EqualOnNonEmpty ==
    call = "get_largest_box" =>
        /\ boxes # <<>> =>
            /\ ~panicked
            /\ sum_boxes(get_largest_boxes(boxes, 1)) = total(largest)
        /\ boxes = <<>> =>
            /\ panicked
            /\ sum_boxes(get_largest_boxes(boxes, 1)) = 0

C3_Witness ==
    /\ call = "get_largest_box"
    /\ ~panicked
    /\ Len(boxes) = 3
    /\ total(boxes[1]) < total(boxes[2])
    /\ total(boxes[3]) < total(boxes[2])
    /\ total(largest) = 3
    /\ sum_boxes(get_largest_boxes(boxes, 1)) = 3

\* C4: get_largest_boxes(G, k) returns min(k, |G|) boxes, each a box of G
\* and none twice, in non-increasing order of total, boxes of equal total in
\* their input order, and no box left out has a larger total than a box
\* returned.
C4_TopK ==
    call = "get_largest_boxes" =>
        /\ ~panicked
        /\ Len(largest_boxes) = Min(count, Len(boxes))
        /\ \A j \in 1..Len(largest_boxes) :
            /\ largest_boxes[j].position + 1 \in 1..Len(boxes)
            /\ largest_boxes[j] = boxes[largest_boxes[j].position + 1]
        /\ \A i, j \in 1..Len(largest_boxes) :
            i < j =>
                /\ largest_boxes[i].position # largest_boxes[j].position
                /\ total(largest_boxes[i]) >= total(largest_boxes[j])
                /\ total(largest_boxes[i]) = total(largest_boxes[j]) =>
                    largest_boxes[i].position < largest_boxes[j].position
        /\ \A i \in 1..Len(boxes), j \in 1..Len(largest_boxes) :
            boxes[i].position \notin Positions(largest_boxes) =>
                total(boxes[i]) <= total(largest_boxes[j])

C4_Witness ==
    /\ call = "get_largest_boxes"
    /\ count = 2
    /\ Len(boxes) = 3
    /\ total(boxes[1]) < total(boxes[2])
    /\ total(boxes[2]) = total(boxes[3])
    /\ largest_boxes = <<boxes[2], boxes[3]>>

\* The number of empty lines of a text: the line feeds that start the text
\* or follow another line feed.
EmptyLineCount(text) ==
    Cardinality({i \in 1..Len(text) :
                    text[i] = LF /\ (i = 1 \/ text[i - 1] = LF)})

NonEmpty(l) == l # <<>>

\* The runs of characters between line feeds that are not empty.
NonBlankLines(text) == SelectSeq(Split(text, LF), NonEmpty)

AllNumbers(text) ==
    \A i \in 1..Len(NonBlankLines(text)) :
        IsSome(ParseU32(NonBlankLines(text)[i]))

\* C5: on a text whose non-blank lines are all unsigned integers,
\* input_generator returns (number of empty lines + 1) boxes, never none;
\* the i-th box has position i - 1 and the boxes' calories, concatenated,
\* are the non-blank lines in input order.
C5_Parse ==
    (call = "input_generator" /\ AllNumbers(input)) =>
        /\ ~panicked
        /\ Len(boxes) = EmptyLineCount(input) + 1
        /\ \A i \in 1..Len(boxes) : boxes[i].position = i - 1
        /\ Concat([i \in 1..Len(boxes) |-> boxes[i].calories])
            = [i \in 1..Len(NonBlankLines(input)) |->
                Unwrap(ParseU32(NonBlankLines(input)[i]))]

C5_Witness ==
    /\ call = "input_generator"
    /\ ~panicked
    /\ input = <<"+", "2", LF, LF, LF, "1", "2">>
    /\ boxes = <<CalorieBox(0, <<2>>), CalorieBox(1, <<>>),
                 CalorieBox(2, <<12>>)>>

(***************************************************************************)
(* Day 2: properties.                                                      *)
(***************************************************************************)
ChoiceTokens == {<<"A">>, <<"B">>, <<"C">>, <<"X">>, <<"Y">>, <<"Z">>}

StrategyTokens == {<<"X">>, <<"Y">>, <<"Z">>}

\* A well-formed line: exactly two space-separated tokens, the first a
\* choice, the second a choice (variant A) or a strategy symbol (variant B).
WellFormed(line, second) ==
    /\ Len(Split(line, " ")) = 2
    /\ Split(line, " ")[1] \in ChoiceTokens
    /\ Split(line, " ")[2] \in second

SecondTokens ==
    IF call = "day2::input_generator_part1" THEN ChoiceTokens
    ELSE StrategyTokens

\* C1: both day-2 generators fail the whole parse when a line is malformed
\* (no Vec of rounds comes back, no line is skipped), so a Vec that is
\* returned has one round per input line.
C1_FailFast ==
    call \in {"day2::input_generator_part1", "day2::input_generator_part2"} =>
        /\ ~panicked => Len(games) = Len(Lines(input))
        /\ (\E i \in 1..Len(Lines(input)) :
                ~WellFormed(Lines(input)[i], SecondTokens)) => panicked

\* C6: from_strategy agrees with wins_against: "Y" gives the opponent's own
\* Play (a Tie), "X" the one Play that loses against the opponent, "Z" the
\* one Play that wins against it; any other symbol gives an error.
C6_FromStrategy ==
    call = "from_strategy" =>
        /\ strategy = <<"Y">> =>
            /\ play = Some(from)
            /\ wins_against(Unwrap(play), from) = "Tie"
        /\ strategy = <<"X">> =>
            /\ IsSome(play)
            /\ \A c \in Plays :
                wins_against(c, from) = "Loss" <=> c = Unwrap(play)
        /\ strategy = <<"Z">> =>
            /\ IsSome(play)
            /\ \A c \in Plays :
                wins_against(c, from) = "Win" <=> c = Unwrap(play)
        /\ strategy \notin StrategyTokens => play = None

C6_Witness ==
    /\ call = "from_strategy"
    /\ from = "Scissors"
    /\ strategy = <<"Z">>
    /\ play = Some("Rock")

\* Rock beats Scissors, Scissors beats Paper, Paper beats Rock.
Beats(a, b) ==
    <<a, b>> \in {<<"Rock", "Scissors">>, <<"Scissors", "Paper">>,
                  <<"Paper", "Rock">>}

ShapeValue(p) == IF p = "Rock" THEN 1 ELSE IF p = "Paper" THEN 2 ELSE 3

\* C7: Game(opponent, self).points() is the shape value of self plus 3 when
\* the Plays are identical, 6 when self beats the opponent and 0 when the
\* opponent beats self; the outcome is antisymmetric and the score is in
\* 1..9.
C7_Points ==
    call = "points" =>
        /\ points = ShapeValue(game[2])
                    + (IF game[1] = game[2] THEN 3
                       ELSE IF Beats(game[2], game[1]) THEN 6
                       ELSE 0)
        /\ wins_against(game[2], game[1]) = "Win"
            <=> wins_against(game[1], game[2]) = "Loss"
        /\ wins_against(game[2], game[1]) = "Tie" <=> game[1] = game[2]
        /\ points \in 1..9

C7_Witness ==
    /\ call = "points"
    /\ game = Game("Scissors", "Rock")
    /\ points = 7

(***************************************************************************)
(* Day 3: properties.                                                      *)
(***************************************************************************)
\* The number of lines of a text: one per line feed, and one more for
\* characters after the last line feed.
LineCount(text) ==
    Cardinality({i \in 1..Len(text) : text[i] = LF})
        + (IF text # <<>> /\ text[Len(text)] # LF THEN 1 ELSE 0)

\* C8: generator part 2 groups the lines into consecutive runs of three, in
\* input order; when the number of lines is no multiple of three the run
\* ends in a panic and no list of triples comes back.
C8_Triples ==
    call = "day3::input_generator_part2" =>
        /\ LineCount(input) % 3 = 0 =>
            /\ ~panicked
            /\ Len(rucksacks) * 3 = LineCount(input)
            /\ \A j \in 1..Len(rucksacks), k \in 1..3 :
                rucksacks[j][k] = Lines(input)[3 * (j - 1) + k]
        /\ LineCount(input) % 3 # 0 =>
            /\ panicked
            /\ rucksacks = <<>>

C8_Witness ==
    /\ call = "day3::input_generator_part2"
    /\ LineCount(input) = 5
    /\ panicked
    /\ rucksacks = <<>>

\* The chars that occur in every string of an entry.
CommonOf(entry) ==
    {c \in Day3Chars : \A k \in 1..Len(entry) : \E i \in 1..Len(entry[k]) :
        entry[k][i] = c}

\* 'a'..'z' count 1..26, 'A'..'Z' count 27..52, any other char counts nothing.
Weight(c) ==
    IF IsIn(LowerCase, c) THEN IndexIn(LowerCase, c)
    ELSE IF IsIn(UpperCase, c) THEN 26 + IndexIn(UpperCase, c)
    ELSE 0

Entries == IF call = "day3::solve_part1" THEN compartments ELSE rucksacks

\* C9: when every pair of halves (part 1) or triple of lines (part 2) has
\* exactly one common char, the solver returns the decimal sum of the
\* priorities of these chars, a char without a priority adding nothing.
C9_SumOfPriorities ==
    (/\ call \in {"day3::solve_part1", "day3::solve_part2"}
     /\ \A i \in 1..Len(Entries) : Cardinality(CommonOf(Entries[i])) = 1) =>
        /\ ~panicked
        /\ ParseU32(answer) =
            Some(SeqSum([i \in 1..Len(Entries) |->
                Weight(CHOOSE c \in CommonOf(Entries[i]) : TRUE)]))

C9_Witness ==
    /\ call = "day3::solve_part1"
    /\ compartments = << <<<<"a">>, <<"a">>>>,
                         <<<<"Z">>, <<"b", "Z">>>>,
                         <<<<"3", "a">>, <<"3", "Z">>>> >>
    /\ answer = <<"5", "3">>

\* C10: generator part 1 cuts a line of n chars into two strings that
\* concatenate to the line, of equal length when n is even; when n is odd
\* the first string holds the middle char ((n + 1) / 2 and (n - 1) / 2 chars).
C10_MiddleCharInFirst ==
    call = "day3::input_generator_part1" =>
        /\ Len(compartments) = Len(Lines(input))
        /\ \A i \in 1..Len(compartments) :
            /\ compartments[i][1] \o compartments[i][2] = Lines(input)[i]
            /\ Len(compartments[i][1]) = (Len(Lines(input)[i]) + 1) \div 2
            /\ Len(compartments[i][2]) = Len(Lines(input)[i]) \div 2

====
